---- MODULE Spec2Model ----
(***************************************************************************)
(* Model of src/main.rs of bumbledbees/slice: the command-line tool that   *)
(* copies a byte range of an input file to an output.  main() resolves the *)
(* range (skip, bytes) from the optional flags --skip, --bytes, --end and  *)
(* the size of the input with a sorted stack of (name, value) pairs, then  *)
(* opens the output and calls slice().                                     *)
(*                                                                         *)
(* u64 is scaled down to W bits.  The size of a file is a signed off_t, so *)
(* a file never has more than 2^(W-1) - 1 bytes.  Paths are valid UTF-8,  *)
(* reads, seeks and writes do not fail, and the buffer of slice() can be   *)
(* allocated.                                                              *)
(***************************************************************************)
EXTENDS Integers, Sequences, FiniteSets, TLC

\* width of the unsigned integers of the model (the program's u64)
W == 3

Modulus == 2 ^ W
MaxU64 == Modulus - 1
U64 == 0 .. MaxU64
\* largest size a file can have
MaxInputLen == 2 ^ (W - 1) - 1

\* Option<T>: None is <<>>, Some(v) is <<v>>
NoneOpt == << >>
Some(v) == << v >>
IsSome(o) == Len(o) = 1
Unwrap(o) == o[1]
OptU64 == { NoneOpt } \cup { Some(v) : v \in U64 }

\* the files the run can touch: the input path and one other path
InPath == "in"
OutPath == "out"
Paths == { InPath, OutPath }
Missing == [exists |-> FALSE, data |-> << >>]
File(d) == [exists |-> TRUE, data |-> d]
\* a file of n bytes whose i-th byte is i
Content(n) == [i \in 1 .. n |-> i - 1]
Contents == { Content(n) : n \in 0 .. MaxInputLen }
\* what the other path holds before the run
OldOutput == << 0, 0 >>

Min(a, b) == IF a <= b THEN a ELSE b

VARIABLES
    pc,            \* position in main()
    args,          \* the parsed command line: skip, bytes, end, output
    files,         \* the file system: path -> file
    stdout,        \* bytes written to standard output
    input_len,     \* input.metadata().len()
    opt_stack,     \* Vec<(&str, u64)>
    input_len_eff, \* the second binding of input_len: end if given
    range,         \* the resolved (skip, bytes)
    created,       \* File::create was called
    out,           \* where output points: "none", "stdout" or a path
    data,          \* the buffer slice() read
    panic          \* the panic that ended the run: kind, quantity, bound

vars == << pc, args, files, stdout, input_len, opt_stack, input_len_eff,
           range, created, out, data, panic >>

NoPanic == [kind |-> "none", k |-> "", bound |-> ""]
Panic(kind, k, bound) == [kind |-> kind, k |-> k, bound |-> bound]

Entry(k, v) == [k |-> k, v |-> v]

----------------------------------------------------------------------------
\* Pure helpers of the resolver

\* u64 addition: exact if it fits; otherwise the build decides, a panic with
\* overflow checks on (debug) and the wrapped sum with them off (release)
Add(a, b) ==
    IF a + b <= MaxU64
    THEN { [panic |-> FALSE, v |-> a + b] }
    ELSE { [panic |-> TRUE, v |-> 0], [panic |-> FALSE, v |-> (a + b) % Modulus] }

\* u64 subtraction, likewise
Sub(a, b) ==
    IF b <= a
    THEN { [panic |-> FALSE, v |-> a - b] }
    ELSE { [panic |-> TRUE, v |-> 0], [panic |-> FALSE, v |-> (a - b) % Modulus] }

\* the options that were given, in the order skip, bytes, end
Collect(a) ==
    LET names == << "skip", "bytes", "end" >>
        all == [i \in 1 .. 3 |-> Entry(names[i], a[names[i]])]
        given == SelectSeq(all, LAMBDA e : IsSome(e.v))
    IN  [i \in 1 .. Len(given) |-> Entry(given[i].k, Unwrap(given[i].v))]

\* the fold over the stack: (number of skip/bytes entries, their sum)
RECURSIVE Fold(_, _)
Fold(s, acc) ==
    IF s = << >> \/ acc.panic THEN { acc }
    ELSE LET e == Head(s) IN
         IF e.k = "skip" \/ e.k = "bytes"
         THEN UNION { Fold(Tail(s), [panic |-> r.panic, n |-> acc.n + 1, v |-> r.v])
                      : r \in Add(acc.v, e.v) }
         ELSE Fold(Tail(s), acc)

\* Insert with the index ignored: the element is pushed at the end
InsertAtEnd(s, index, e) == Append(s, e)

\* Vec::insert(index, element), index counted from 0
Insert(s, index, e) == SubSeq(s, 1, index) \o << e >> \o SubSeq(s, index + 1, Len(s))

\* the synthetic entry goes in at index 2 when skip and bytes were both given
InsertSum(s, f) ==
    IF f.n = 2 THEN Insert(s, 2, Entry("skip + bytes", f.v)) ELSE s

\* InsertSorted with x put before its equals: the sort is no longer stable
RECURSIVE InsertSortedUnstable(_, _)
InsertSortedUnstable(t, x) ==
    IF t = << >> THEN << x >>
    ELSE IF Head(t).v < x.v
         THEN << Head(t) >> \o InsertSortedUnstable(Tail(t), x)
         ELSE << x >> \o t

\* one step of the stable sort: x goes after every element not greater
RECURSIVE InsertSorted(_, _)
InsertSorted(t, x) ==
    IF t = << >> THEN << x >>
    ELSE IF Head(t).v <= x.v
         THEN << Head(t) >> \o InsertSorted(Tail(t), x)
         ELSE << x >> \o t

\* SortBy that leaves the stack as it was
SortByNothing(s) == s

\* Vec::sort_by on the values: stable
RECURSIVE SortBy(_)
SortBy(s) ==
    IF s = << >> THEN << >>
    ELSE InsertSorted(SortBy(SubSeq(s, 1, Len(s) - 1)), s[Len(s)])

Last(s) == s[Len(s)]
Pop(s) == SubSeq(s, 1, Len(s) - 1)
\* HasEnd that never finds the entry
HasEndNever(s) == FALSE

\* opt_stack.iter().find(|(k, _)| *k == "end") is Some
HasEnd(s) == \E i \in 1 .. Len(s) : s[i].k = "end"

\* EndMatch without the guard on the name of the popped entry
EndMatchAny(e) == [panic |-> NoPanic, v |-> e.v]

\* the match on the entry popped for end: its value, or the panic
EndMatch(e) ==
    IF e.k # "end"
    THEN [panic |-> Panic("exceeds", e.k, "end"), v |-> 0]
    ELSE [panic |-> NoPanic, v |-> e.v]

\* PairMatch that expects skip first and has no arm for bytes first
PairMatchSkipFirst(rest) ==
    IF Len(rest) < 2
    THEN [panic |-> Panic("index", "", ""), r |-> << 0, 0 >>]
    ELSE IF rest[1].k = "skip"
         THEN [panic |-> NoPanic, r |-> << rest[1].v, rest[2].v >>]
         ELSE [panic |-> Panic("forbidden", "", ""), r |-> << 0, 0 >>]

\* the match on opt_stack[0..2] once "skip + bytes" was popped
PairMatch(rest) ==
    IF Len(rest) < 2
    THEN [panic |-> Panic("index", "", ""), r |-> << 0, 0 >>]
    ELSE IF rest[1].k = "skip"
         THEN [panic |-> NoPanic, r |-> << rest[1].v, rest[2].v >>]
         ELSE IF rest[1].k = "bytes"
              THEN [panic |-> NoPanic, r |-> << rest[2].v, rest[1].v >>]
              ELSE [panic |-> Panic("forbidden", "", ""), r |-> << 0, 0 >>]

\* the final match on the popped entry: the range, or the panic
FinalMatch(s, len) ==
    IF s = << >> THEN { [panic |-> NoPanic, r |-> << 0, len >>] }
    ELSE LET top == Last(s)
             rest == Pop(s)
         IN  IF top.k = "skip + bytes"
             THEN { PairMatch(rest) }
             ELSE IF top.k = "skip"
                  THEN { IF d.panic
                         THEN [panic |-> Panic("overflow", "", ""), r |-> << 0, 0 >>]
                         ELSE [panic |-> NoPanic, r |-> << top.v, d.v >>]
                         : d \in Sub(len, top.v) }
                  ELSE IF top.k = "bytes"
                       THEN { [panic |-> NoPanic, r |-> << 0, top.v >>] }
                       ELSE { [panic |-> NoPanic, r |-> << 0, len >>] }

\* ReadRange that seeks only when skip is greater than 1
ReadRangeLateSeek(content, skip, bytes) ==
    LET pos == IF skip > 1 THEN skip ELSE 0
    IN  SubSeq(content, pos + 1, Min(pos + bytes, Len(content)))

\* the bytes slice() reads: seek to skip if skip > 0, then at most bytes
ReadRange(content, skip, bytes) ==
    LET pos == IF skip > 0 THEN skip ELSE 0
    IN  SubSeq(content, pos + 1, Min(pos + bytes, Len(content)))

\* the output is a file, not stdout
ToFile(a) == IsSome(a.output) /\ Unwrap(a.output) # "-"

\* the file system once the output named on the command line is open
Create(fs, a) ==
    IF ToFile(a)
    THEN [fs EXCEPT ![Unwrap(a.output)] = File(<< >>)]
    ELSE fs

----------------------------------------------------------------------------
\* The run

Init ==
    /\ pc = "start"
    /\ args \in [skip : OptU64, bytes : OptU64, end : OptU64,
                 output : { NoneOpt, Some("-"), Some(OutPath), Some(InPath) }]
    /\ \E f \in { Missing } \cup { File(c) : c \in Contents } :
          files = [p \in Paths |-> IF p = InPath THEN f ELSE File(OldOutput)]
    /\ stdout = << >>
    /\ input_len = 0
    /\ opt_stack = << >>
    /\ input_len_eff = 0
    /\ range = << 0, 0 >>
    /\ created = FALSE
    /\ out = "none"
    /\ data = << >>
    /\ panic = NoPanic

Abort(p) ==
    /\ pc' = "panic"
    /\ panic' = p

\* OpenInput that creates the output as soon as the input is open
OpenInputAndOutput ==
    /\ pc = "start"
    /\ IF ~ files[InPath].exists
       THEN Abort(Panic("invalid path", "", "")) /\ UNCHANGED << files, created >>
       ELSE /\ pc' = "opened"
            /\ files' = Create(files, args)
            /\ created' = ToFile(args)
            /\ UNCHANGED panic
    /\ UNCHANGED << args, stdout, input_len, opt_stack, input_len_eff,
                    range, out, data >>

\* lines 70-81: the input must exist, then it is opened
OpenInput ==
    /\ pc = "start"
    /\ IF ~ files[InPath].exists
       THEN Abort(Panic("invalid path", "", ""))
       ELSE pc' = "opened" /\ UNCHANGED panic
    /\ UNCHANGED << args, files, stdout, input_len, opt_stack, input_len_eff,
                    range, created, out, data >>

\* lines 84-96: the size of the input and the stack of the given options
CollectOpts ==
    /\ pc = "opened"
    /\ input_len' = Len(files[InPath].data)
    /\ opt_stack' = Collect(args)
    /\ pc' = "collected"
    /\ UNCHANGED << args, files, stdout, input_len_eff, range, created, out,
                    data, panic >>

\* lines 103-115: the fold, and the synthetic entry when both are given
FoldOpts ==
    /\ pc = "collected"
    /\ \E f \in Fold(opt_stack, [panic |-> FALSE, n |-> 0, v |-> 0]) :
          IF f.panic
          THEN Abort(Panic("overflow", "", "")) /\ UNCHANGED opt_stack
          ELSE /\ opt_stack' = InsertSum(opt_stack, f)
               /\ pc' = "folded"
               /\ UNCHANGED panic
    /\ UNCHANGED << args, files, stdout, input_len, input_len_eff, range,
                    created, out, data >>

\* lines 118-124: nothing may exceed the size of the input
CheckSize ==
    /\ pc = "folded"
    /\ LET sorted == SortBy(Append(opt_stack, Entry("input file size", input_len)))
       IN  /\ opt_stack' = Pop(sorted)
           /\ IF Last(sorted).k # "input file size"
              THEN Abort(Panic("exceeds", Last(sorted).k, "input file size"))
              ELSE pc' = "sized" /\ UNCHANGED panic
    /\ UNCHANGED << args, files, stdout, input_len, input_len_eff, range,
                    created, out, data >>

\* lines 129-138: a given end becomes the effective length of the input
CheckEnd ==
    /\ pc = "sized"
    /\ IF HasEnd(opt_stack)
       THEN IF opt_stack = << >>
            THEN Abort(Panic("unwrap", "", ""))
                 /\ UNCHANGED << opt_stack, input_len_eff >>
            ELSE /\ opt_stack' = Pop(opt_stack)
                 /\ LET m == EndMatch(Last(opt_stack))
                    IN  IF m.panic.kind # "none"
                        THEN Abort(m.panic) /\ UNCHANGED input_len_eff
                        ELSE /\ input_len_eff' = m.v
                             /\ pc' = "ceiled"
                             /\ UNCHANGED panic
       ELSE /\ input_len_eff' = input_len
            /\ pc' = "ceiled"
            /\ UNCHANGED << opt_stack, panic >>
    /\ UNCHANGED << args, files, stdout, input_len, range, created, out, data >>

\* lines 140-151: the range
Resolve ==
    /\ pc = "ceiled"
    /\ \E m \in FinalMatch(opt_stack, input_len_eff) :
          /\ opt_stack' = IF opt_stack = << >> THEN opt_stack ELSE Pop(opt_stack)
          /\ IF m.panic.kind # "none"
             THEN Abort(m.panic) /\ UNCHANGED range
             ELSE range' = m.r /\ pc' = "resolved" /\ UNCHANGED panic
    /\ UNCHANGED << args, files, stdout, input_len, input_len_eff, created,
                    out, data >>

\* lines 154-166: the output is stdout, or a file created or truncated
OpenOutput ==
    /\ pc = "resolved"
    /\ files' = Create(files, args)
    /\ created' = ToFile(args)
    /\ out' = IF ToFile(args) THEN Unwrap(args.output) ELSE "stdout"
    /\ pc' = "output_open"
    /\ UNCHANGED << args, stdout, input_len, opt_stack, input_len_eff, range,
                    data, panic >>

\* lines 168, 171-181: slice(bytes, skip, input, output)
Slice ==
    /\ pc = "output_open"
    /\ LET read == ReadRange(files[InPath].data, range[1], range[2])
       IN  /\ data' = read
           /\ IF out = "stdout"
              THEN stdout' = stdout \o read /\ UNCHANGED files
              ELSE /\ files' = [files EXCEPT ![out] = File(@.data \o read)]
                   /\ UNCHANGED stdout
    /\ pc' = "done"
    /\ UNCHANGED << args, input_len, opt_stack, input_len_eff, range, created,
                    out, panic >>

\* another process truncates the input after its size was read
Truncate ==
    /\ pc \in { "resolved", "output_open" }
    /\ \E n \in 0 .. Len(files[InPath].data) - 1 :
          files' = [files EXCEPT ![InPath] = File(SubSeq(@.data, 1, n))]
    /\ UNCHANGED << pc, args, stdout, input_len, opt_stack, input_len_eff,
                    range, created, out, data, panic >>

Next ==
    \/ OpenInput
    \/ CollectOpts
    \/ FoldOpts
    \/ CheckSize
    \/ CheckEnd
    \/ Resolve
    \/ OpenOutput
    \/ Slice
    \/ Truncate

Spec == Init /\ [][Next]_vars

----------------------------------------------------------------------------
\* Vocabulary of the properties

Given(x) == IsSome(args[x])
Val(x) == Unwrap(args[x])
BothGiven == Given("skip") /\ Given("bytes")
\* the exact sum start + length, not reduced to the width
ExactSum == Val("skip") + Val("bytes")

\* the resolver returned a range
Resolved == pc \in { "resolved", "output_open", "done" }
\* the resolver panicked
ResolverPanic == pc = "panic" /\ panic.kind # "invalid path"
\* the resolver ran to its end
Finished == Resolved \/ ResolverPanic
\* the resolver failed with "value of k cannot exceed bound!"
ValidationFailure == pc = "panic" /\ panic.kind = "exceeds"

\* the ceiling that applies to a supplied quantity
CeilingOf(x) == IF x # "end" /\ Given("end") THEN Val("end") ELSE input_len
\* the supplied quantities that are over their ceiling
Offenders == { x \in { "skip", "bytes", "end" } : Given(x) /\ Val(x) > CeilingOf(x) }

\* the value of a quantity a message names, and of a bound it names
NamedValue(k) == IF k = "skip + bytes" THEN ExactSum ELSE Val(k)
BoundValue(b) == IF b = "end" THEN Val("end") ELSE input_len

\* what the output received
Written == IF out = "stdout" THEN stdout ELSE files[out].data

\* C1: with no end, when every supplied quantity is at most the input size
\* (and start + length is, when both are supplied), resolution succeeds with
\* (0, S), (start, S - start), (0, length) or (start, length).
C1_NoEndResolution ==
    ( /\ Finished
      /\ ~ Given("end")
      /\ Given("skip") => Val("skip") <= input_len
      /\ Given("bytes") => Val("bytes") <= input_len
      /\ BothGiven => ExactSum <= input_len )
    => /\ Resolved
       /\ range = << IF Given("skip") THEN Val("skip") ELSE 0,
                     IF Given("bytes") THEN Val("bytes")
                     ELSE IF Given("skip") THEN input_len - Val("skip")
                     ELSE input_len >>

\* start == S alone, on a file that is not empty, resolved to (S, 0)
C1_Witness ==
    /\ pc = "resolved"
    /\ ~ Given("end") /\ ~ Given("bytes") /\ Given("skip")
    /\ input_len > 0
    /\ Val("skip") = input_len
    /\ range = << input_len, 0 >>

\* C2: a supplied end <= S replaces the input size: only end gives (0, end),
\* start <= end gives (start, end - start), length <= end gives (0, length).
C2_EndIsCeiling ==
    ( /\ Finished
      /\ Given("end") /\ Val("end") <= input_len
      /\ ~ BothGiven
      /\ Given("skip") => Val("skip") <= Val("end")
      /\ Given("bytes") => Val("bytes") <= Val("end") )
    => /\ Resolved
       /\ range = << IF Given("skip") THEN Val("skip") ELSE 0,
                     IF Given("bytes") THEN Val("bytes")
                     ELSE IF Given("skip") THEN Val("end") - Val("skip")
                     ELSE Val("end") >>

\* start == end below the input size resolved to (start, 0)
C2_Witness ==
    /\ pc = "resolved"
    /\ Given("end") /\ Given("skip") /\ ~ Given("bytes")
    /\ Val("skip") = Val("end")
    /\ 0 < Val("end") /\ Val("end") < input_len
    /\ range = << Val("skip"), 0 >>

\* C3 as stated: when a supplied quantity is over its ceiling and resolution
\* fails on a bound, the message names a supplied quantity that is over its
\* ceiling.
C3_NamesTheOffender ==
    (ValidationFailure /\ Offenders # { }) => panic.k \in Offenders

\* C3 as amended: when a supplied quantity is over its ceiling, resolution
\* returns no range; it panics on the overflow only when start + length does
\* not fit, and a validation failure names one quantity, among start, length,
\* end and the sum start + length, whose value is over the bound it names.
C3_FailsNamingOneOver ==
    (Finished /\ Offenders # { })
    => /\ pc = "panic"
       /\ panic.kind \in { "exceeds", "overflow" }
       /\ panic.kind = "overflow" => (BothGiven /\ ExactSum > MaxU64)
       /\ panic.kind = "exceeds" =>
             /\ panic.k \in { "skip", "bytes", "end", "skip + bytes" }
             /\ NamedValue(panic.k) > BoundValue(panic.bound)

\* start alone is over the input size, and the message names the sum
C3_Witness ==
    /\ ValidationFailure
    /\ Offenders = { "skip" }
    /\ panic.k = "skip + bytes"
    /\ panic.bound = "input file size"

\* C4: a resolved range has start <= S and start + length <= S, and
\* start + length <= end when end is supplied.
C4_RangeWithinBounds ==
    Resolved =>
       /\ range[1] <= input_len
       /\ range[1] + range[2] <= input_len
       /\ Given("end") => range[1] + range[2] <= Val("end")

\* all three supplied, the range ends exactly at end, below the input size
C4_Witness ==
    /\ pc = "resolved"
    /\ BothGiven /\ Given("end")
    /\ range[1] > 0 /\ range[2] > 0
    /\ range[1] + range[2] = Val("end")
    /\ Val("end") < input_len

\* C5 as stated: with start, length and end all supplied, resolution succeeds
\* only when start + length equals end.
C5_ConsistencyChecked ==
    (Resolved /\ BothGiven /\ Given("end")) => ExactSum = Val("end")

\* C5 as amended: with start, length and end all supplied, end is a ceiling:
\* resolution succeeds exactly when start + length <= end <= S, and it then
\* returns (start, length).
C5_EndBoundsTheSum ==
    (Finished /\ BothGiven /\ Given("end"))
    => /\ Resolved <=> (ExactSum <= Val("end") /\ Val("end") <= input_len)
       /\ Resolved => range = << Val("skip"), Val("bytes") >>

\* all three supplied, resolved with start + length below end
C5_Witness ==
    /\ pc = "resolved"
    /\ BothGiven /\ Given("end")
    /\ ExactSum < Val("end")
    /\ range = << Val("skip"), Val("bytes") >>

\* C6: when start + length does not fit the unsigned integers, the sum is
\* never wrapped and resolution fails with a validation failure.
C6_OverflowIsValidationFailure ==
    (BothGiven /\ ExactSum > MaxU64)
    => /\ \A i \in 1 .. Len(opt_stack) :
             opt_stack[i].k = "skip + bytes" => opt_stack[i].v = ExactSum
       /\ Finished => ValidationFailure

\* C7: once the copy is done the output holds exactly the bytes
\* C[start : min(start + length, |C|)] of the input, and the run did not fail.
C7_CopyIsSubstring ==
    pc = "done" =>
       /\ panic = NoPanic
       /\ Written = SubSeq(files[InPath].data, range[1] + 1,
                           Min(range[1] + range[2], Len(files[InPath].data)))

\* the input shrank after its size was read: the copy started inside the
\* file, met end-of-file before length bytes, and wrote the shorter result
C7_Witness ==
    /\ pc = "done"
    /\ 0 < range[1] /\ range[1] < Len(files[InPath].data)
    /\ range[1] + range[2] > Len(files[InPath].data)
    /\ Written # << >>
    /\ Len(Written) < range[2]

\* C8: whenever a supplied quantity or the sum start + length is over the
\* input size the failure names the input file size as the bound, and a
\* failure names end only when all of them are within the input size and one
\* other than end is over end.
C8_SizeCheckedBeforeEnd ==
    LET overSize == \/ \E x \in { "skip", "bytes", "end" } :
                          Given(x) /\ Val(x) > input_len
                    \/ BothGiven /\ ExactSum > input_len
        overEnd == /\ Given("end")
                   /\ \/ \E x \in { "skip", "bytes" } :
                            Given(x) /\ Val(x) > Val("end")
                      \/ BothGiven /\ ExactSum > Val("end")
    IN  Finished =>
           /\ overSize => (ValidationFailure /\ panic.bound = "input file size")
           /\ (ValidationFailure /\ panic.bound = "end") => (~ overSize /\ overEnd)

\* C9: the resolver never reaches the "forbidden error" panic, never slices
\* opt_stack[0..2] out of range and never unwraps an empty pop; when the
\* synthetic entry is on top for the final match, skip and bytes are the two
\* entries under it.
C9_NoInternalError ==
    /\ panic.kind \notin { "forbidden", "index", "unwrap" }
    /\ (pc = "sized" /\ Given("end")) => opt_stack # << >>
    /\ (pc = "ceiled" /\ opt_stack # << >> /\ Last(opt_stack).k = "skip + bytes")
       => /\ Len(opt_stack) = 3
          /\ { opt_stack[1].k, opt_stack[2].k } = { "skip", "bytes" }

\* all three supplied with length below start: the pair was matched bytes first
C9_Witness ==
    /\ pc = "resolved"
    /\ BothGiven /\ Given("end")
    /\ Val("bytes") < Val("skip")
    /\ range = << Val("skip"), Val("bytes") >>
    /\ opt_stack = << Entry("bytes", Val("bytes")), Entry("skip", Val("skip")) >>

\* C10: until resolution has succeeded, and so in every run that ends on a
\* missing input or a validation failure, the output was not created,
\* truncated or written and nothing was read from the input.
C10_OutputUntouchedOnFailure ==
    pc \notin { "output_open", "done" } =>
       /\ ~ created
       /\ out = "none"
       /\ files[OutPath] = File(OldOutput)
       /\ ResolverPanic => files[InPath] = File(Content(input_len))
       /\ stdout = << >>
       /\ data = << >>

\* a validation failure of a run whose output is the input file itself
C10_Witness ==
    /\ ValidationFailure
    /\ args.output = Some(InPath)
    /\ input_len > 0
    /\ files[InPath].data = Content(input_len)

====
